---- MODULE Spec2Model ----
(***************************************************************************)
(* Model of libexec/create_package.py: the packaging script for the        *)
(* prebuilt mecab-ipadic-neologd dictionary.  One invocation is modelled   *)
(* as a sequential state machine: the command line (or a direct call of    *)
(* create_package), the validation, one of the three staging stages, the   *)
(* external tool, and the final move of the artifact.                      *)
(*                                                                         *)
(* Strings are sequences of tokens, so that f-strings are concatenations   *)
(* and re.split is computed.  Paths are sequences of strings (their        *)
(* components), relative to the directory mkdtemp() returned; the empty    *)
(* path is that directory itself.                                          *)
(***************************************************************************)
EXTENDS Integers, Sequences, FiniteSets, TLC

\* ------------------------------------------------------------- bounds
\* Longest version tag (in characters) given on the command line.
MaxTagLen == 3

\* ------------------------------------------------------------- constants of the script
MECAB_IPADIC_NEOLOGD_NAME == <<"mecab-ipadic-neologd">>

MECAB_IPADIC_NEOLOGD_MISC_DOCS ==
    << <<"README.md">>, <<"README.ja.md">>, <<"ChangeLog">>, <<"COPYING">> >>

MiscDocSet == {MECAB_IPADIC_NEOLOGD_MISC_DOCS[i] : i \in 1..Len(MECAB_IPADIC_NEOLOGD_MISC_DOCS)}

\* argparse: choices=['tgz', 'deb', 'rpm']
Choices == {"tgz", "deb", "rpm"}

\* the character class of re.split(r'[\-_]', ...)
SeparatorsMut == {"-"}
Separators == {"-", "_"}

SysDic == <<"sys.dic">>

DebBaseLibDir == << <<"var">>, <<"lib">>, <<"mecab">>, <<"dic">>, <<"ipadic-neologd">> >>
DebBaseDocDir == << <<"usr">>, <<"share">>, <<"doc">>, <<"mecab-ipadic-neologd">> >>
RpmBaseLibDir == << <<"usr">>, <<"lib64">>, <<"mecab">>, <<"dic">>, <<"ipadic-neologd">> >>
RpmBaseDocDir(version) ==
    << <<"usr">>, <<"share">>, <<"doc">>, MECAB_IPADIC_NEOLOGD_NAME \o <<"-">> \o version >>

\* ------------------------------------------------------------- inputs of the model
\* characters a version tag is made of
TagChars == {"1", "-", "_"}

VersionTags == UNION {[1..n -> TagChars] : n \in 0..MaxTagLen}

\* package types a caller may ask for ("zip" stands for any unsupported one)
PackageTypes == Choices \cup {"zip"}

\* entries that may be found in input_dir, each absent, a regular file or a directory
InputNames == {SysDic, <<"matrix.bin">>, <<"README.md">>}
EntryKinds == {"absent", "file", "dir"}
InputDirs ==
    {d \in [InputNames -> EntryKinds] : d[<<"matrix.bin">>] # "dir"}

\* what the subprocess may end with: Popen.poll() gives the exit code, or
\* minus the signal number when the child was killed by a signal
ExitStatuses == {-9, 0, 1, 2}

\* what is at output_file before the run
OutputKinds == {"absent", "file", "dir"}

NoPath == << <<"<none>">> >>
TempDir == << >>

VARIABLES
    entry,          \* "main" (the command line) or "create_package" (a direct call)
    package_type,   \* --type / package_type
    version_tag,    \* --version_tag
    input_dir,      \* the entries of --input_dir / input_dir
    docs,           \* the misc docs that exist as regular files
    output_kind,    \* what is at --output_file before the run
    version, revision,
    pc,             \* the statement the invocation is at
    error,          \* the exception that ended it, or "none"
    rc,             \* the subprocess's return code (when subprocesses > 0)
    tool_wrote,     \* whether the external tool wrote the package file
    tmp_dirs,       \* the directories that exist at or below the mkdtemp directory
    tmp_files,      \* the files that exist below it
    package_path,   \* the path create_*_package returned
    placed,         \* where shutil.move put the artifact
    mkdtemp_calls,  \* how many temporary directories were created
    subprocesses    \* how many subprocesses were started

vars == <<entry, package_type, version_tag, input_dir, docs, output_kind,
          version, revision, pc, error, rc, tool_wrote, tmp_dirs, tmp_files,
          package_path, placed, mkdtemp_calls, subprocesses>>

request == <<entry, package_type, version_tag, input_dir, docs, output_kind>>

\* ------------------------------------------------------------- pure helpers

\* re.split(r'[\-_]', s): the pieces of s between the separator characters
RECURSIVE ReSplitAcc(_, _, _)
ReSplitAcc(s, parts, cur) ==
    IF s = << >> THEN Append(parts, cur)
    ELSE IF Head(s) \in Separators
         THEN ReSplitAcc(Tail(s), Append(parts, cur), << >>)
         ELSE ReSplitAcc(Tail(s), parts, Append(cur, Head(s)))

ReSplit(s) == ReSplitAcc(s, << >>, << >>)

\* version, revision = re.split(...): the unpacking needs exactly two pieces
Unpacks(parts) == Len(parts) = 2

IsFile(kind) == kind = "file"

\* os.path.isfile(os.path.join(input_dir, 'sys.dic'))
HasSysDicMut(dir) == dir[SysDic] # "absent"
HasSysDic(dir) == IsFile(dir[SysDic])

\* the loop over MECAB_IPADIC_NEOLOGD_MISC_DOCS finds no missing file
AllMiscDocsPresentMut(present) == MECAB_IPADIC_NEOLOGD_MISC_DOCS[1] \in present
AllMiscDocsPresent(present) ==
    \A i \in 1..Len(MECAB_IPADIC_NEOLOGD_MISC_DOCS) :
        MECAB_IPADIC_NEOLOGD_MISC_DOCS[i] \in present

\* if rc > 0: raise MeCabPackageException(...)
RaisesMut(status) == status > 1
Raises(status) == status > 0

\* if not os.path.isfile(package_path): MeCabPackageException(...)
\* the exception is constructed and dropped: nothing is raised
PostconditionRaises(exists) == FALSE

IsPrefix(p, q) == Len(p) <= Len(q) /\ SubSeq(q, 1, Len(p)) = p

\* pathlib.Path(path).mkdir(parents=True, exist_ok=True)
MkdirP(dirs, path) == dirs \cup {SubSeq(path, 1, k) : k \in 0..Len(path)}

\* shutil.rmtree(target): target and everything below it
RmtreeMut(paths, target) ==
    {p \in paths : ~IsPrefix(SubSeq(target, 1, Len(target) - 1), p)}
Rmtree(paths, target) == {p \in paths : ~IsPrefix(target, p)}

\* mecab_dirname = f'{MECAB_IPADIC_NEOLOGD_NAME}-{version}-{revision}'
MecabDirname(v, r) == MECAB_IPADIC_NEOLOGD_NAME \o <<"-">> \o v \o <<"-">> \o r

\* the staging subtree of each stage: temp_mecab_dir_path, deb_source_dir, rpm_source_dir
StagingDir(type, v, r) ==
    CASE type = "tgz" -> <<MecabDirname(v, r)>>
      [] type = "deb" -> << <<"deb">> >>
      [] type = "rpm" -> << <<"rpm">> >>

\* where the dictionary files are linked
LibDir(type, v, r) ==
    CASE type = "tgz" -> StagingDir(type, v, r)
      [] type = "deb" -> StagingDir(type, v, r) \o DebBaseLibDir
      [] type = "rpm" -> StagingDir(type, v, r) \o RpmBaseLibDir

\* where the misc docs are linked
DocDir(type, v, r) ==
    CASE type = "tgz" -> StagingDir(type, v, r)
      [] type = "deb" -> StagingDir(type, v, r) \o DebBaseDocDir
      [] type = "rpm" -> StagingDir(type, v, r) \o RpmBaseDocDir(v)

\* temp_mecab_tarball_path, deb_path, rpm_path
PackagePath(type, v, r) ==
    CASE type = "tgz" -> <<MecabDirname(v, r) \o <<".tgz">> >>
      [] type = "deb" ->
            <<MECAB_IPADIC_NEOLOGD_NAME \o <<"_">> \o v \o <<"-">> \o r \o <<"_all.deb">> >>
      [] type = "rpm" ->
            <<MECAB_IPADIC_NEOLOGD_NAME \o <<"_">> \o v \o <<"-">> \o r \o <<"_all.rpm">> >>

AfterInstallPath == << <<"after-install">> >>
AfterRemovePath == << <<"after-remove">> >>

\* for filename in os.listdir(input_dir): if os.path.isfile(full_filename)
RegularFiles(dir) == {n \in DOMAIN dir : IsFile(dir[n])}

\* for doc_file_path in MECAB_IPADIC_NEOLOGD_MISC_DOCS: os.link(doc_file_path, dst);
\* os.link raises FileExistsError when dst exists, and the loop stops there
RECURSIVE LinkDocsInto(_, _, _, _)
LinkDocsInto(files, dirs, dir, names) ==
    IF names = << >> THEN [files |-> files, raised |-> FALSE]
    ELSE LET dst == Append(dir, Head(names))
         IN  IF dst \in files \cup dirs
             THEN [files |-> files, raised |-> TRUE]
             ELSE LinkDocsInto(files \cup {dst}, dirs, dir, Tail(names))

\* ------------------------------------------------------------- the state machine

Init ==
    /\ entry \in {"main", "create_package"}
    /\ package_type \in PackageTypes
    /\ input_dir \in InputDirs
    /\ docs \in SUBSET MiscDocSet
    /\ output_kind \in OutputKinds
    /\ \/ /\ entry = "main"
          /\ version_tag \in VersionTags
          /\ version = << >>
          /\ revision = << >>
          /\ pc = "parse_args"
       \/ /\ entry = "create_package"
          /\ version_tag = << >>
          /\ version = <<"1">>
          /\ revision \in {<< >>, <<"1">>}
          /\ output_kind = "absent"
          /\ pc = "check_sysdic"
    /\ error = "none"
    /\ rc = 0
    /\ tool_wrote = FALSE
    /\ tmp_dirs = {}
    /\ tmp_files = {}
    /\ package_path = NoPath
    /\ placed = "none"
    /\ mkdtemp_calls = 0
    /\ subprocesses = 0

\* an exception nobody catches ends the invocation
Fail(e) ==
    /\ pc' = "failed"
    /\ error' = e

\* parser.parse_args(): --type must be one of the choices, or argparse exits
ParseArgs ==
    /\ pc = "parse_args"
    /\ IF package_type \in Choices
       THEN pc' = "split_tag" /\ error' = error
       ELSE Fail("SystemExit")
    /\ UNCHANGED <<request, version, revision, rc, tool_wrote, tmp_dirs, tmp_files,
                   package_path, placed, mkdtemp_calls, subprocesses>>

\* arg_version, arg_revision = re.split(r'[\-_]', args.version_tag)
SplitTag ==
    /\ pc = "split_tag"
    /\ LET parts == ReSplit(version_tag)
       IN  IF Unpacks(parts)
           THEN /\ version' = parts[1]
                /\ revision' = parts[2]
                /\ pc' = "check_sysdic"
                /\ error' = error
           ELSE /\ Fail("ValueError")
                /\ UNCHANGED <<version, revision>>
    /\ UNCHANGED <<request, rc, tool_wrote, tmp_dirs, tmp_files,
                   package_path, placed, mkdtemp_calls, subprocesses>>

\* create_package: if not os.path.isfile(os.path.join(input_dir, 'sys.dic')): raise
CheckSysDic ==
    /\ pc = "check_sysdic"
    /\ IF HasSysDic(input_dir)
       THEN pc' = "check_docs" /\ error' = error
       ELSE Fail("MissingSysDic")
    /\ UNCHANGED <<request, version, revision, rc, tool_wrote, tmp_dirs, tmp_files,
                   package_path, placed, mkdtemp_calls, subprocesses>>

\* create_package: for misc_doc_file in ...: if not os.path.isfile(misc_doc_file): raise
CheckMiscDocs ==
    /\ pc = "check_docs"
    /\ IF AllMiscDocsPresent(docs)
       THEN pc' = "dispatch" /\ error' = error
       ELSE Fail("MissingMiscDoc")
    /\ UNCHANGED <<request, version, revision, rc, tool_wrote, tmp_dirs, tmp_files,
                   package_path, placed, mkdtemp_calls, subprocesses>>

\* create_package: if package_type == 'tgz': ... else: raise
Dispatch ==
    /\ pc = "dispatch"
    /\ IF package_type \in {"tgz", "deb", "rpm"}
       THEN pc' = "mkdtemp" /\ error' = error
       ELSE Fail("UnknownPackageType")
    /\ UNCHANGED <<request, version, revision, rc, tool_wrote, tmp_dirs, tmp_files,
                   package_path, placed, mkdtemp_calls, subprocesses>>

\* temp_dir = __temp_directory()
TempDirectory ==
    /\ pc = "mkdtemp"
    /\ tmp_dirs' = tmp_dirs \cup {TempDir}
    /\ mkdtemp_calls' = mkdtemp_calls + 1
    /\ pc' = "mkdir_staging"
    /\ UNCHANGED <<request, version, revision, error, rc, tool_wrote, tmp_files,
                   package_path, placed, subprocesses>>

\* os.mkdir(staging); for deb and rpm also __mkdir_p(lib_dir), __mkdir_p(doc_dir)
MkdirStaging ==
    /\ pc = "mkdir_staging"
    /\ tmp_dirs' =
          MkdirP(MkdirP(tmp_dirs \cup {StagingDir(package_type, version, revision)},
                        LibDir(package_type, version, revision)),
                 DocDir(package_type, version, revision))
    /\ pc' = "link_inputs"
    /\ UNCHANGED <<request, version, revision, error, rc, tool_wrote, tmp_files,
                   package_path, placed, mkdtemp_calls, subprocesses>>

\* the loop over os.listdir(input_dir); the names are distinct and the directory
\* is new, so no os.link of this loop finds its destination taken
LinkInputs ==
    /\ pc = "link_inputs"
    /\ tmp_files' = tmp_files \cup
          {Append(LibDir(package_type, version, revision), n) : n \in RegularFiles(input_dir)}
    /\ pc' = "link_docs"
    /\ UNCHANGED <<request, version, revision, error, rc, tool_wrote, tmp_dirs,
                   package_path, placed, mkdtemp_calls, subprocesses>>

\* the loop over MECAB_IPADIC_NEOLOGD_MISC_DOCS
LinkDocs ==
    /\ pc = "link_docs"
    /\ LET res == LinkDocsInto(tmp_files, tmp_dirs,
                               DocDir(package_type, version, revision),
                               MECAB_IPADIC_NEOLOGD_MISC_DOCS)
       IN  /\ tmp_files' = res.files
           /\ IF res.raised
              THEN Fail("FileExistsError")
              ELSE /\ pc' = IF package_type = "deb" THEN "write_scripts" ELSE "run_command"
                   /\ error' = error
    /\ UNCHANGED <<request, version, revision, rc, tool_wrote, tmp_dirs,
                   package_path, placed, mkdtemp_calls, subprocesses>>

\* create_deb_package: the after-install and after-remove files
WriteScripts ==
    /\ pc = "write_scripts"
    /\ tmp_files' = tmp_files \cup {AfterInstallPath, AfterRemovePath}
    /\ pc' = "run_command"
    /\ UNCHANGED <<request, version, revision, error, rc, tool_wrote, tmp_dirs,
                   package_path, placed, mkdtemp_calls, subprocesses>>

\* __run_command(['tar', ...]) / __run_command(fpm_command): the tool ends with any
\* status, having written the package file or not
RunCommand ==
    /\ pc = "run_command"
    /\ \E status \in ExitStatuses, wrote \in BOOLEAN :
          /\ rc' = status
          /\ tool_wrote' = wrote
          /\ tmp_files' = IF wrote
                          THEN tmp_files \cup {PackagePath(package_type, version, revision)}
                          ELSE tmp_files
          /\ IF Raises(status)
             THEN Fail("ProcessFailed")
             ELSE pc' = "rmtree" /\ error' = error
    /\ subprocesses' = subprocesses + 1
    /\ UNCHANGED <<request, version, revision, tmp_dirs,
                   package_path, placed, mkdtemp_calls>>

\* shutil.rmtree(staging); return the package's path
RmtreeStaging ==
    /\ pc = "rmtree"
    /\ tmp_dirs' = Rmtree(tmp_dirs, StagingDir(package_type, version, revision))
    /\ tmp_files' = Rmtree(tmp_files, StagingDir(package_type, version, revision))
    /\ package_path' = PackagePath(package_type, version, revision)
    /\ pc' = "check_package"
    /\ UNCHANGED <<request, version, revision, error, rc, tool_wrote,
                   placed, mkdtemp_calls, subprocesses>>

\* create_package: the check of the package file, and return package_path
CheckPackage ==
    /\ pc = "check_package"
    /\ IF PostconditionRaises(package_path \in tmp_files)
       THEN Fail("PackageMissing")
       ELSE /\ pc' = IF entry = "main" THEN "move" ELSE "returned"
            /\ error' = error
    /\ UNCHANGED <<request, version, revision, rc, tool_wrote, tmp_dirs, tmp_files,
                   package_path, placed, mkdtemp_calls, subprocesses>>

\* shutil.move(pkg_path, args.output_file): into output_file when that is a
\* directory, else onto it; FileNotFoundError when pkg_path does not exist
Move ==
    /\ pc = "move"
    /\ IF package_path \in tmp_files
       THEN /\ tmp_files' = tmp_files \ {package_path}
            /\ placed' = IF output_kind = "dir" THEN "inside_output_file" ELSE "output_file"
            /\ pc' = "done"
            /\ error' = error
       ELSE /\ Fail("FileNotFoundError")
            /\ UNCHANGED <<tmp_files, placed>>
    /\ UNCHANGED <<request, version, revision, rc, tool_wrote, tmp_dirs,
                   package_path, mkdtemp_calls, subprocesses>>

Next ==
    \/ ParseArgs
    \/ SplitTag
    \/ CheckSysDic
    \/ CheckMiscDocs
    \/ Dispatch
    \/ TempDirectory
    \/ MkdirStaging
    \/ LinkInputs
    \/ LinkDocs
    \/ WriteScripts
    \/ RunCommand
    \/ RmtreeStaging
    \/ CheckPackage
    \/ Move

Spec == Init /\ [][Next]_vars

\* the exit status of the command line: 0 at the end of the script, 2 from
\* argparse, 1 from an uncaught exception
ExitCode ==
    CASE pc = "done" -> 0
      [] pc = "failed" /\ error = "SystemExit" -> 2
      [] pc = "failed" /\ error # "SystemExit" -> 1
      [] OTHER -> -1

TypeOK ==
    /\ pc \in {"parse_args", "split_tag", "check_sysdic", "check_docs", "dispatch",
               "mkdtemp", "mkdir_staging", "link_inputs", "link_docs", "write_scripts",
               "run_command", "rmtree", "check_package", "move", "returned", "done",
               "failed"}
    /\ rc \in ExitStatuses
    /\ mkdtemp_calls \in 0..1
    /\ subprocesses \in 0..1
    /\ placed \in {"none", "output_file", "inside_output_file"}

\* ------------------------------------------------------------- what the claims speak of

AllTmpPaths == tmp_dirs \cup tmp_files

NothingStarted ==
    /\ mkdtemp_calls = 0
    /\ subprocesses = 0
    /\ AllTmpPaths = {}

\* the command line ended before create_package was called
EndedBeforeCreatePackage == pc = "failed" /\ error \in {"SystemExit", "ValueError"}

\* create_package was called and is past its check of sys.dic
PastSysDicCheck ==
    /\ pc \notin {"parse_args", "split_tag", "check_sysdic"}
    /\ ~EndedBeforeCreatePackage

\* create_package was called and is past its checks of sys.dic and of the misc docs
PastValidation == PastSysDicCheck /\ pc # "check_docs"

ValidInput == input_dir[SysDic] = "file" /\ docs = MiscDocSet

StagingSubtree ==
    {p \in AllTmpPaths : IsPrefix(StagingDir(package_type, version, revision), p)}

NumSeparators(tag) == Cardinality({i \in 1..Len(tag) : tag[i] \in {"-", "_"}})

\* ------------------------------------------------------------- the claims

\* C1: whenever create_package has returned a path (and the caller has not yet
\* moved the file), a package file exists at that path; so a tool that exits 0
\* without writing the package makes create_package raise.
C1_ReturnedPathHoldsArtifact ==
    (pc \in {"move", "returned"}) =>
        /\ package_path = PackagePath(package_type, version, revision)
        /\ package_path \in tmp_files

\* C2: when sys.dic is not a regular file of input_dir, create_package fails,
\* whatever the package type, with no temporary directory made and no
\* subprocess started.
C2_MissingSysDicFailsFirst ==
    (PastSysDicCheck /\ input_dir[SysDic] # "file") =>
        /\ pc = "failed"
        /\ error = "MissingSysDic"
        /\ package_path = NoPath
        /\ NothingStarted

C2_Witness ==
    /\ pc = "failed"
    /\ error = "MissingSysDic"
    /\ input_dir[SysDic] = "dir"
    /\ package_type = "zip"
    /\ docs = MiscDocSet

\* C3: when a misc doc is missing, create_package fails for every package type
\* and every input_dir, with or without sys.dic, before any temporary directory
\* or subprocess.
C3_MissingMiscDocFails ==
    (PastValidation /\ docs # MiscDocSet) =>
        /\ pc = "failed"
        /\ error = (IF input_dir[SysDic] = "file" THEN "MissingMiscDoc" ELSE "MissingSysDic")
        /\ package_path = NoPath
        /\ NothingStarted

C3_Witness ==
    /\ pc = "failed"
    /\ error = "MissingMiscDoc"
    /\ input_dir[SysDic] = "file"
    /\ docs = MiscDocSet \ {<<"COPYING">>}

\* C4: the process runner returns normally only when the subprocess's status is
\* 0; on every other status, negative ones included, it raises.
C4_RunnerSucceedsOnlyOnZero ==
    (subprocesses > 0) =>
        IF rc = 0 THEN error # "ProcessFailed"
                  ELSE pc = "failed" /\ error = "ProcessFailed"

\* C5: when the external tool exits with code 1, the stage and create_package
\* fail: the staging directory is still there, no package path was returned and
\* nothing was moved to output_file.
C5_ExitOnePropagates ==
    (subprocesses > 0 /\ rc = 1) =>
        /\ pc = "failed"
        /\ error = "ProcessFailed"
        /\ StagingDir(package_type, version, revision) \in tmp_dirs
        /\ package_path = NoPath
        /\ placed = "none"

C5_Witness ==
    /\ subprocesses > 0
    /\ rc = 1
    /\ tool_wrote
    /\ package_type = "rpm"
    /\ pc = "failed"

\* C6: a version tag with exactly one separator gives the text before it as the
\* version and the text after it as the revision; a tag with none or with more
\* than one fails, and on the command line it fails before any validation,
\* temporary directory or subprocess.
C6_VersionTagParsing ==
    (entry = "main" /\ pc \notin {"parse_args", "split_tag"} /\ error # "SystemExit") =>
        IF NumSeparators(version_tag) = 1
        THEN /\ error # "ValueError"
             /\ \E i \in 1..Len(version_tag) :
                   /\ version_tag[i] \in {"-", "_"}
                   /\ version = SubSeq(version_tag, 1, i - 1)
                   /\ revision = SubSeq(version_tag, i + 1, Len(version_tag))
        ELSE /\ pc = "failed"
             /\ error = "ValueError"
             /\ NothingStarted

C6_Witness ==
    /\ entry = "main"
    /\ version_tag = <<"1", "1", "_">>
    /\ version = <<"1", "1">>
    /\ revision = << >>
    /\ pc = "check_docs"

\* C7: the command line exits 0 only with the artifact at output_file and gone
\* from its temporary path, and exits non-zero on every validation failure and
\* every subprocess failure.
C7_ExitZeroIffArtifactPlaced ==
    /\ (ExitCode = 0) =>
          /\ placed = "output_file"
          /\ package_path \notin tmp_files
          /\ ValidInput
          /\ subprocesses > 0 /\ rc = 0
    /\ (entry = "main" /\ pc \in {"done", "failed"}
          /\ (~ValidInput \/ (subprocesses > 0 /\ rc # 0))) => ExitCode > 0

\* C8: after a successful invocation, with the artifact moved, every temporary
\* directory the invocation created, and everything in it, has been removed.
C8_TempDirsRemovedAfterMove ==
    (pc = "done") => AllTmpPaths = {}

\* C9: when the external tool succeeds and has written the package, then from
\* the stage's return until the caller moves the file the staging subtree is
\* gone and the package file is still in the stage's temporary directory.
C9_StagingRemovedPackageKept ==
    (pc \in {"check_package", "move", "returned"} /\ rc = 0 /\ tool_wrote) =>
        /\ StagingSubtree = {}
        /\ package_path = PackagePath(package_type, version, revision)
        /\ package_path \in tmp_files
        /\ TempDir \in tmp_dirs

C9_Witness ==
    /\ pc = "move"
    /\ rc = 0
    /\ tool_wrote
    /\ package_type = "deb"
    /\ input_dir[<<"matrix.bin">>] = "file"

\* C10: for every input_dir with sys.dic (and all misc docs present) the tgz
\* stage reaches the archiving step, and its staging directory then holds one
\* entry for each regular file of input_dir and one for each misc doc, and no
\* subdirectory.
C10_TgzStagingHoldsInputsAndDocs ==
    (package_type = "tgz" /\ ValidInput /\ PastValidation) =>
        /\ (pc = "failed" => subprocesses > 0)
        /\ (pc = "run_command" =>
              /\ StagingSubtree \cap tmp_files =
                    {Append(StagingDir("tgz", version, revision), n) :
                        n \in RegularFiles(input_dir) \cup MiscDocSet}
              /\ StagingSubtree \cap tmp_dirs = {StagingDir("tgz", version, revision)})

====
